---- MODULE Spec2Model ----
(***************************************************************************)
(* Book review service (expressBookReviews).                               *)
(*                                                                         *)
(* index.js      : express app, session middleware under /customer, the    *)
(*                 auth gate under /customer/auth/*, router mounting.      *)
(* booksdb.js    : the seeded catalog `books`.                             *)
(* general.js    : public router (register, reads).                        *)
(* auth_users.js : `users`, isValid, authenticatedUser, login and the      *)
(*                 review mutations.                                       *)
(*                                                                         *)
(* A request is a record [method, path, sid, body, query]; path is the     *)
(* sequence of its segments, body and query are functions from the fields  *)
(* that are present to their string values (an absent field is absent from *)
(* the DOMAIN).  Node runs every handler of this program to completion,    *)
(* so one synchronous handler is one step.  Time is counted in seconds,    *)
(* the unit of jsonwebtoken's iat/exp.                                     *)
(***************************************************************************)
EXTENDS Integers, Sequences, FiniteSets, TLC

VARIABLES
    users,      \* auth_users.js `users`: sequence of [username, password]
    books,      \* booksdb.js `books`: isbn key -> [author, title, reviews]
    session,    \* session store: sid -> [authorization: <<>> or <<cred>>]
    now,        \* wall clock, seconds
    req,        \* the request handled last (with req.user as set by auth)
    res,        \* the response sent to it
    handler,    \* the route handler that ran for it ("none": stopped before)
    lastLogin,  \* history: sid -> <<>> or <<[username, at]>> of the most
                \* recent login answered 200 in that session
    pending,    \* register requests received and not yet dispatched
    answered,   \* register requests dispatched: <<[body, status]>>
    objectCtor, \* own properties the program has put on the function Object,
                \* which is what books["constructor"] evaluates to
    before,     \* history: the request and response handled before req
    flight,     \* delayed reads whose timer is pending:
                \* <<[req, stage, found, seen]>>, seen the review maps of
                \* the catalog when the request arrived (history)
    onArrival   \* history: the review maps of the catalog when the delayed
                \* read answered last had arrived

vars == <<users, books, session, now, req, res, handler, lastLogin,
          pending, answered, objectCtor, before, flight, onArrival>>

----------------------------------------------------------------------------
\* Bounds of the model

MaxTime == 3600
MaxRegs == 3
MaxSearches == 1
MaxFlight == 2
MaxPuts == 2

\* Program constants

ExpiresIn == 3600

SignKey == "access"

\* Inputs

\* Session ids of the clients of a run
OneClient == {1}

Usernames == {"alice", "bob"}

Texts == {"Loved it", "Hated it"}

Isbns == {"1", "11"}

\* The instants at which requests are observed: around every multiple of
\* the token lifetime, so that both sides of an expiry are met.
Times == {t \in 0..MaxTime : t % ExpiresIn \in {0, 1}}

\* JSON bodies: both fields set, or one of them absent or empty.
Bodies ==
    {[username |-> "alice", password |-> "pw1"],
     [username |-> "alice", password |-> "pw2"],
     [username |-> "bob", password |-> "pw1"],
     [username |-> "alice", password |-> ""],
     [username |-> "", password |-> "pw1"],
     [username |-> "alice"],
     [k \in {} |-> ""]}

\* Query strings: review absent, empty or set.
Queries == UNION {[D -> Texts \cup {""}] : D \in SUBSET {"review"}}

NoFields == [k \in {} |-> ""]

----------------------------------------------------------------------------
\* booksdb.js

SeedBooks ==
    [k \in {"1", "2", "3", "4", "5", "6", "7", "8", "9", "10"} |->
       CASE k = "1" -> [author |-> "Chinua Achebe",
                        title |-> "Things Fall Apart", reviews |-> NoFields]
         [] k = "2" -> [author |-> "Hans Christian Andersen",
                        title |-> "Fairy tales", reviews |-> NoFields]
         [] k = "3" -> [author |-> "Dante Alighieri",
                        title |-> "The Divine Comedy", reviews |-> NoFields]
         [] k = "4" -> [author |-> "Unknown",
                        title |-> "The Epic Of Gilgamesh", reviews |-> NoFields]
         [] k = "5" -> [author |-> "Unknown",
                        title |-> "The Book Of Job", reviews |-> NoFields]
         [] k = "6" -> [author |-> "Unknown",
                        title |-> "One Thousand and One Nights",
                        reviews |-> NoFields]
         [] k = "7" -> [author |-> "Unknown",
                        title |-> "Njál's Saga", reviews |-> NoFields]
         [] k = "8" -> [author |-> "Jane Austen",
                        title |-> "Pride and Prejudice", reviews |-> NoFields]
         [] k = "9" -> [author |-> "Honoré de Balzac",
                        title |-> "Le Père Goriot", reviews |-> NoFields]
         [] k = "10" -> [author |-> "Samuel Beckett",
                         title |->
                           "Molloy, Malone Dies, The Unnamable, the trilogy",
                         reviews |-> NoFields]]

----------------------------------------------------------------------------
\* JavaScript helpers

\* Variant: tests the presence of the field only, as `=== undefined` would
Falsy_absentOnly(obj, k) == k \notin DOMAIN obj

\* !obj[k] for a string-valued field: absent (undefined) or ""
Falsy(obj, k) == k \notin DOMAIN obj \/ obj[k] = ""

\* Array.prototype.filter is SelectSeq of the Sequences module.

\* Property names every object literal inherits from Object.prototype
ProtoKeys ==
    {"__proto__", "constructor", "hasOwnProperty", "isPrototypeOf",
     "propertyIsEnumerable", "toLocaleString", "toString", "valueOf"}

\* Variant: only own properties are looked up
Truthy_own(obj, k) == k \in DOMAIN obj /\ obj[k] # ""

\* obj[k] in a condition, obj an object literal with string values: an own
\* property counts unless it is "", an inherited one always counts
Truthy(obj, k) ==
    IF k \in DOMAIN obj THEN obj[k] # "" ELSE k \in ProtoKeys

\* Variant: an existing property is kept
Assign_keep(obj, k, v) ==
    IF k \in DOMAIN obj THEN obj
    ELSE [x \in DOMAIN obj \cup {k} |-> IF x = k THEN v ELSE obj[x]]

\* obj[k] = v, v a string: sets the own property k; for k = "__proto__" the
\* inherited setter runs instead, and it ignores a string
Assign(obj, k, v) ==
    IF k = "__proto__" THEN obj
    ELSE [x \in DOMAIN obj \cup {k} |-> IF x = k THEN v ELSE obj[x]]

\* Variant: nothing is removed
Delete_none(obj, k) == obj

\* delete obj[k]: removes the own property k, if any
Delete(obj, k) == [x \in DOMAIN obj \ {k} |-> obj[x]]


\* Strings.  A string value is named by its text; Spell gives the text of
\* every string of the catalog and of the search parameters, one character
\* at a time.
Spell ==
       "Chinua Achebe" :> <<"C", "h", "i", "n", "u", "a", " ", "A", "c",
            "h", "e", "b", "e">>
    @@ "Things Fall Apart" :> <<"T", "h", "i", "n", "g", "s", " ", "F", "a",
            "l", "l", " ", "A", "p", "a", "r", "t">>
    @@ "Hans Christian Andersen" :> <<"H", "a", "n", "s", " ", "C", "h",
            "r", "i", "s", "t", "i", "a", "n", " ", "A", "n", "d", "e", "r",
            "s", "e", "n">>
    @@ "Fairy tales" :> <<"F", "a", "i", "r", "y", " ", "t", "a", "l", "e",
            "s">>
    @@ "Dante Alighieri" :> <<"D", "a", "n", "t", "e", " ", "A", "l", "i",
            "g", "h", "i", "e", "r", "i">>
    @@ "The Divine Comedy" :> <<"T", "h", "e", " ", "D", "i", "v", "i", "n",
            "e", " ", "C", "o", "m", "e", "d", "y">>
    @@ "Unknown" :> <<"U", "n", "k", "n", "o", "w", "n">>
    @@ "The Epic Of Gilgamesh" :> <<"T", "h", "e", " ", "E", "p", "i", "c",
            " ", "O", "f", " ", "G", "i", "l", "g", "a", "m", "e", "s",
            "h">>
    @@ "The Book Of Job" :> <<"T", "h", "e", " ", "B", "o", "o", "k", " ",
            "O", "f", " ", "J", "o", "b">>
    @@ "One Thousand and One Nights" :> <<"O", "n", "e", " ", "T", "h", "o",
            "u", "s", "a", "n", "d", " ", "a", "n", "d", " ", "O", "n", "e",
            " ", "N", "i", "g", "h", "t", "s">>
    @@ "Njál's Saga" :> <<"N", "j", "á", "l", "'", "s", " ", "S", "a", "g",
            "a">>
    @@ "Jane Austen" :> <<"J", "a", "n", "e", " ", "A", "u", "s", "t", "e",
            "n">>
    @@ "Pride and Prejudice" :> <<"P", "r", "i", "d", "e", " ", "a", "n",
            "d", " ", "P", "r", "e", "j", "u", "d", "i", "c", "e">>
    @@ "Honoré de Balzac" :> <<"H", "o", "n", "o", "r", "é", " ", "d", "e",
            " ", "B", "a", "l", "z", "a", "c">>
    @@ "Le Père Goriot" :> <<"L", "e", " ", "P", "è", "r", "e", " ", "G",
            "o", "r", "i", "o", "t">>
    @@ "Samuel Beckett" :> <<"S", "a", "m", "u", "e", "l", " ", "B", "e",
            "c", "k", "e", "t", "t">>
    @@ "Molloy, Malone Dies, The Unnamable, the trilogy" :>
            <<"M", "o", "l", "l", "o", "y", ",", " ", "M", "a", "l", "o",
            "n", "e", " ", "D", "i", "e", "s", ",", " ", "T", "h", "e", " ",
            "U", "n", "n", "a", "m", "a", "b", "l", "e", ",", " ", "t", "h",
            "e", " ", "t", "r", "i", "l", "o", "g", "y">>
    @@ "unknown" :> <<"u", "n", "k", "n", "o", "w", "n">>
    @@ "an" :> <<"a", "n">>
    @@ "JANE AUSTEN" :> <<"J", "A", "N", "E", " ", "A", "U", "S", "T", "E",
            "N">>
    @@ "NoSuchAuthor" :> <<"N", "o", "S", "u", "c", "h", "A", "u", "t", "h",
            "o", "r">>
    @@ "the" :> <<"t", "h", "e">>
    @@ "FAIRY TALES" :> <<"F", "A", "I", "R", "Y", " ", "T", "A", "L", "E",
            "S">>
    @@ "NoSuchTitle" :> <<"N", "o", "S", "u", "c", "h", "T", "i", "t", "l",
            "e">>

\* The characters of s
Chars(s) == Spell[s]

UpperCase ==
    <<"A", "B", "C", "D", "E", "F", "G", "H", "I", "J", "K", "L", "M",
      "N", "O", "P", "Q", "R", "S", "T", "U", "V", "W", "X", "Y", "Z">>

LowerCase ==
    <<"a", "b", "c", "d", "e", "f", "g", "h", "i", "j", "k", "l", "m",
      "n", "o", "p", "q", "r", "s", "t", "u", "v", "w", "x", "y", "z">>

\* Variant: the characters are left as they are
toLowerCase_same(cs) == cs

\* The characters that occur in the strings
Letters == UNION {{Spell[s][i] : i \in DOMAIN Spell[s]} : s \in DOMAIN Spell}

\* The small letter of a capital; any other character is left as it is
Lower ==
    [c \in Letters |->
       IF \E k \in DOMAIN UpperCase : UpperCase[k] = c
       THEN LowerCase[CHOOSE k \in DOMAIN UpperCase : UpperCase[k] = c]
       ELSE c]

\* String.prototype.toLowerCase, on the characters of a string
toLowerCase(cs) == [i \in DOMAIN cs |-> Lower[cs[i]]]

\* String.prototype.includes, on the characters of two strings
includes(cs, part) ==
    \E i \in 0..(Len(cs) - Len(part)) : SubSeq(cs, i + 1, i + Len(part)) = part

\* s.toLowerCase().includes(t.toLowerCase()), for every two strings
IncludesIgnoringCase ==
    [s \in DOMAIN Spell |->
       [t \in DOMAIN Spell |->
          includes(toLowerCase(Chars(s)), toLowerCase(Chars(t)))]]

\* Collation of String.prototype.localeCompare (root locale).  First level:
\* the letter, whatever its case and accent; blanks and punctuation sort
\* before the letters.
Alphabet == <<" ", ",", "'">> \o LowerCase

Accented == ("á" :> "a") @@ ("é" :> "e") @@ ("è" :> "e")

BaseLetter(c) ==
    IF Lower[c] \in DOMAIN Accented THEN Accented[Lower[c]] ELSE Lower[c]

Primary(c) == CHOOSE k \in DOMAIN Alphabet : Alphabet[k] = BaseLetter(c)

\* Second level: an accented letter after the plain one
Secondary(c) == IF Lower[c] \in DOMAIN Accented THEN 1 ELSE 0

\* Third level: a capital after the small letter
Tertiary(c) == IF \E k \in DOMAIN UpperCase : UpperCase[k] = c THEN 1 ELSE 0

\* The weights of every string, level by level
Weights ==
    [s \in DOMAIN Spell |->
       <<[i \in DOMAIN Spell[s] |-> Primary(Spell[s][i])],
         [i \in DOMAIN Spell[s] |-> Secondary(Spell[s][i])],
         [i \in DOMAIN Spell[s] |-> Tertiary(Spell[s][i])]>>]

RECURSIVE LexCompare(_, _)
\* Lexicographic comparison of two sequences of weights: -1, 0 or 1
LexCompare(a, b) ==
    IF a = <<>> /\ b = <<>> THEN 0
    ELSE IF a = <<>> THEN -1
    ELSE IF b = <<>> THEN 1
    ELSE IF Head(a) < Head(b) THEN -1
    ELSE IF Head(a) > Head(b) THEN 1
    ELSE LexCompare(Tail(a), Tail(b))

\* The comparison of two strings, level by level: negative, 0 or positive
collate(s, t) ==
    LET first == LexCompare(Weights[s][1], Weights[t][1])
        second == LexCompare(Weights[s][2], Weights[t][2])
        third == LexCompare(Weights[s][3], Weights[t][3])
    IN  IF first # 0 THEN first ELSE IF second # 0 THEN second ELSE third

\* The comparison of every two strings
Collation ==
    [s \in DOMAIN Spell |-> [t \in DOMAIN Spell |-> collate(s, t)]]

\* s.localeCompare(t)
localeCompare(s, t) == Collation[s][t]

RECURSIVE insert_first(_, _, _)
RECURSIVE insert(_, _, _)
RECURSIVE sort(_, _)

\* Variant: an element is put before the elements it compares equal to
insert_first(list, x, field) ==
    IF list = <<>> THEN <<x>>
    ELSE IF localeCompare(x[field], Head(list)[field]) <= 0
         THEN <<x>> \o list
         ELSE <<Head(list)>> \o insert_first(Tail(list), x, field)

\* x put into a sorted list, after the elements it compares equal to
insert(list, x, field) ==
    IF list = <<>> THEN <<x>>
    ELSE IF localeCompare(x[field], Head(list)[field]) < 0
         THEN <<x>> \o list
         ELSE <<Head(list)>> \o insert(Tail(list), x, field)

\* list.sort((a, b) => a[field].localeCompare(b[field])): the sort of
\* Array.prototype.sort is stable.  The last element is put into the sorted
\* rest, which is computed once.
sort(list, field) ==
    IF list = <<>> THEN <<>>
    ELSE CHOOSE sorted \in
             {insert(rest, list[Len(list)], field) :
                 rest \in {sort(SubSeq(list, 1, Len(list) - 1), field)}} :
           TRUE

\* for (const isbn in books): integer-like keys come in ascending numeric
\* order
ForIn(obj) ==
    SelectSeq(<<"1", "2", "3", "4", "5", "6", "7", "8", "9", "10">>,
              LAMBDA k : k \in DOMAIN obj)

----------------------------------------------------------------------------
\* auth_users.js

\* Variant: looks at the first record only
isValid_first(username) ==
    Len(users) > 0 /\ users[1].username = username

isValid(username) ==
    LET userswithsamename ==
            SelectSeq(users, LAMBDA user : user.username = username)
    IN  Len(userswithsamename) > 0

\* Variant: matches the username and ignores the password
authenticatedUser_nameOnly(username, password) ==
    LET validusers ==
            SelectSeq(users, LAMBDA user : user.username = username)
    IN  Len(validusers) > 0

\* Variant: every pair is accepted
authenticatedUser_any(username, password) == TRUE

authenticatedUser(username, password) ==
    LET validusers ==
            SelectSeq(users, LAMBDA user : /\ user.username = username
                                        /\ user.password = password)
    IN  Len(validusers) > 0

\* Variant: the payload is signed without the username
jwtSign_unnamed(username, key, expiresIn) ==
    [data |-> "", iat |-> now, exp |-> now + expiresIn, sig |-> key]

\* jwt.sign({data: username}, 'access', {expiresIn: 60 * 60})
jwtSign(username, key, expiresIn) ==
    [data |-> username, iat |-> now, exp |-> now + expiresIn, sig |-> key]

\* Variant: the signature is checked, the expiry is not
jwtVerify_noExpiry(token, key) == token.sig = key

\* Variant: a token is still accepted at the instant exp
jwtVerify_atExp(token, key) == token.sig = key /\ now <= token.exp

\* jwt.verify(token, "access", cb): err unless the signature is the key's
\* and the clock is before exp
jwtVerify(token, key) == token.sig = key /\ now < token.exp

Payload(token) == [data |-> token.data, iat |-> token.iat, exp |-> token.exp]

----------------------------------------------------------------------------
\* Responses and requests

RespondWith(status, message, data) ==
    res' = [data |-> data, status |-> status, message |-> message]

Respond(status, message) == RespondWith(status, message, NoFields)

Request(method, path, sid, body, query) ==
    [user |-> <<>>, method |-> method, path |-> path, sid |-> sid,
     body |-> body, query |-> query]

NoRequest == Request("", <<>>, 0, NoFields, NoFields)

\* req.session.authorization, <<>> when the session has none
Authorization(r) == session[r.sid].authorization

----------------------------------------------------------------------------
\* general.js: POST /register

\* Variant: the duplicate check is made before the presence check
register_dupFirst(r) ==
    /\ req' = r
    /\ handler' = "register"
    /\ UNCHANGED <<books, session, lastLogin, objectCtor>>
    /\ IF "username" \in DOMAIN r.body /\ isValid(r.body.username)
       THEN /\ Respond(409, "Username already exists. Please choose a different username.")
            /\ UNCHANGED users
       ELSE IF Falsy(r.body, "username") \/ Falsy(r.body, "password")
            THEN /\ Respond(400, "Username and password are required")
                 /\ UNCHANGED users
            ELSE /\ users' = Append(users, [username |-> r.body.username,
                                            password |-> r.body.password])
                 /\ Respond(200, "User registered successfully. You can now login.")

register(r) ==
    /\ req' = r
    /\ handler' = "register"
    /\ UNCHANGED <<books, session, lastLogin, objectCtor>>
    /\ IF Falsy(r.body, "username") \/ Falsy(r.body, "password")
       THEN /\ Respond(400, "Username and password are required")
            /\ UNCHANGED users
       ELSE IF isValid(r.body.username)
            THEN /\ Respond(409, "Username already exists. Please choose a different username.")
                 /\ UNCHANGED users
            ELSE /\ users' = Append(users, [username |-> r.body.username,
                                            password |-> r.body.password])
                 /\ Respond(200, "User registered successfully. You can now login.")

----------------------------------------------------------------------------
\* auth_users.js: POST /customer/login

\* Variant: a session that already holds a credential keeps it (the 208
\* "already logged in" answer)
issue_keep(r) ==
    IF Authorization(r) # <<>>
    THEN /\ UNCHANGED <<session, lastLogin>>
         /\ Respond(208, "User already logged in")
    ELSE LET accessToken == jwtSign(r.body.username, SignKey, ExpiresIn)
         IN  /\ session' =
                   [session EXCEPT ![r.sid].authorization =
                      <<[username |-> r.body.username,
                         accessToken |-> accessToken]>>]
             /\ lastLogin' =
                   [lastLogin EXCEPT ![r.sid] =
                      <<[username |-> r.body.username, at |-> now]>>]
             /\ Respond(200, "User successfully logged in")

\* Variant: the credential is stored in every session
issue_all(r) ==
    LET accessToken == jwtSign(r.body.username, SignKey, ExpiresIn)
    IN  /\ session' =
              [s \in DOMAIN session |->
                 [authorization |-> <<[username |-> r.body.username,
                                       accessToken |-> accessToken]>>]]
        /\ lastLogin' =
              [lastLogin EXCEPT ![r.sid] =
                 <<[username |-> r.body.username, at |-> now]>>]
        /\ Respond(200, "User successfully logged in")

\* The success branch of login: sign the token, store it in the session
issue(r) ==
    LET accessToken == jwtSign(r.body.username, SignKey, ExpiresIn)
    IN  /\ session' =
              [session EXCEPT ![r.sid].authorization =
                 <<[username |-> r.body.username,
                    accessToken |-> accessToken]>>]
        /\ lastLogin' =
              [lastLogin EXCEPT ![r.sid] =
                 <<[username |-> r.body.username, at |-> now]>>]
        /\ Respond(200, "User successfully logged in")

\* Variant: a refused attempt drops the credential the session holds
login_reset(r) ==
    /\ req' = r
    /\ handler' = "login"
    /\ UNCHANGED <<users, books, objectCtor>>
    /\ IF Falsy(r.body, "username") \/ Falsy(r.body, "password")
       THEN /\ Respond(400, "Username and password are required")
            /\ UNCHANGED <<session, lastLogin>>
       ELSE IF authenticatedUser(r.body.username, r.body.password)
            THEN issue(r)
            ELSE /\ Respond(404, "Invalid Login. Check username and password")
                 /\ session' = [session EXCEPT ![r.sid].authorization = <<>>]
                 /\ UNCHANGED lastLogin

login(r) ==
    /\ req' = r
    /\ handler' = "login"
    /\ UNCHANGED <<users, books, objectCtor>>
    /\ IF Falsy(r.body, "username") \/ Falsy(r.body, "password")
       THEN /\ Respond(400, "Username and password are required")
            /\ UNCHANGED <<session, lastLogin>>
       ELSE IF authenticatedUser(r.body.username, r.body.password)
            THEN issue(r)
            ELSE /\ Respond(404, "Invalid Login. Check username and password")
                 /\ UNCHANGED <<session, lastLogin>>

----------------------------------------------------------------------------
\* auth_users.js: PUT and DELETE /customer/auth/review/:isbn

\* reading .username of an undefined authorization throws; express answers
\* the uncaught TypeError with 500
Thrown(r, name) ==
    /\ req' = r
    /\ handler' = name
    /\ Respond(500, "TypeError")
    /\ UNCHANGED <<users, books, session, lastLogin, objectCtor>>

\* Variant: a username in the body is taken for the acting user
ActingUser_body(r) ==
    IF "username" \in DOMAIN r.body THEN r.body.username
    ELSE Authorization(r)[1].username

\* req.session.authorization.username
ActingUser(r) == Authorization(r)[1].username

\* Of the keys books inherits, the one the model follows: books.constructor
\* is the function Object
InheritedBookKeys == {"constructor"}

\* books[isbn] in a condition
HasBook(isbn) == isbn \in DOMAIN books \/ isbn \in InheritedBookKeys

\* books[isbn], when HasBook(isbn)
BookAt(isbn) == IF isbn \in DOMAIN books THEN books[isbn] ELSE objectCtor

\* Variant: the review map is made anew on every call
ReviewsAt_anew(isbn) == NoFields

\* books[isbn].reviews, with {} for undefined
ReviewsAt(isbn) ==
    IF "reviews" \in DOMAIN BookAt(isbn) THEN BookAt(isbn).reviews
    ELSE NoFields

\* Variant: the books share one review object
SetReviews_shared(isbn, reviews) ==
    /\ books' = [k \in DOMAIN books |-> [books[k] EXCEPT !.reviews = reviews]]
    /\ UNCHANGED objectCtor

\* books[isbn].reviews = reviews (the assignment, or the mutation in place)
SetReviews(isbn, reviews) ==
    IF isbn \in DOMAIN books
    THEN /\ books' = [books EXCEPT ![isbn].reviews = reviews]
         /\ UNCHANGED objectCtor
    ELSE /\ objectCtor' = [reviews |-> reviews]
         /\ UNCHANGED books

putReview(r) ==
    IF Authorization(r) = <<>> THEN Thrown(r, "putReview")
    ELSE
    LET isbn == r.path[4]
        username == ActingUser(r)
    IN  /\ req' = r
        /\ handler' = "putReview"
        /\ UNCHANGED <<users, session, lastLogin>>
        /\ IF Falsy(r.query, "review")
           THEN /\ Respond(400, "Review content is required")
                /\ UNCHANGED <<books, objectCtor>>
           ELSE IF HasBook(isbn)
                THEN /\ SetReviews(isbn, Assign(ReviewsAt(isbn), username,
                                                r.query.review))
                     /\ RespondWith(200, "Review has been added/modified successfully",
                                    [user |-> username,
                                     review |-> r.query.review])
                ELSE /\ Respond(400, "Book not found")
                     /\ UNCHANGED <<books, objectCtor>>

deleteReview(r) ==
    IF Authorization(r) = <<>> THEN Thrown(r, "deleteReview")
    ELSE
    LET isbn == r.path[4]
        username == ActingUser(r)
    IN  /\ req' = r
        /\ handler' = "deleteReview"
        /\ UNCHANGED <<users, session, lastLogin>>
        /\ IF HasBook(isbn)
           THEN IF /\ "reviews" \in DOMAIN BookAt(isbn)
                   /\ Truthy(BookAt(isbn).reviews, username)
                THEN /\ SetReviews(isbn, Delete(BookAt(isbn).reviews,
                                                username))
                     /\ RespondWith(200, "Review has been deleted successfully",
                                    [user |-> username])
                ELSE /\ Respond(404, "Review not found for this user")
                     /\ UNCHANGED <<books, objectCtor>>
           ELSE /\ Respond(404, "Book not found")
                /\ UNCHANGED <<books, objectCtor>>

----------------------------------------------------------------------------
\* general.js: the read routes.  A delayed route reads `books` and answers
\* in the callback of its timer and the continuation that follows it at
\* once; that is one step.  Math.random() > p is a free choice.

\* Variant: a book without reviews is answered like an unknown one
getReviews_404empty(r) ==
    LET isbn == r.path[2]
    IN  /\ req' = r
        /\ handler' = "getReviews"
        /\ UNCHANGED <<users, books, session, lastLogin, objectCtor>>
        /\ IF HasBook(isbn) /\ DOMAIN ReviewsAt(isbn) # {}
           THEN RespondWith(200, "Reviews retrieved successfully",
                            [reviews |-> ReviewsAt(isbn),
                             reviewCount |-> Cardinality(DOMAIN ReviewsAt(isbn))])
           ELSE Respond(404, "Book not found")

\* GET /review/:isbn
getReviews(r) ==
    LET isbn == r.path[2]
    IN  /\ req' = r
        /\ handler' = "getReviews"
        /\ UNCHANGED <<users, books, session, lastLogin, objectCtor>>
        /\ IF HasBook(isbn)
           THEN IF /\ "reviews" \in DOMAIN BookAt(isbn)
                   /\ Cardinality(DOMAIN BookAt(isbn).reviews) > 0
                THEN RespondWith(200, "Reviews retrieved successfully",
                                 [reviews |-> BookAt(isbn).reviews,
                                  reviewCount |->
                                    Cardinality(DOMAIN BookAt(isbn).reviews)])
                ELSE RespondWith(200, "No reviews found",
                                 [reviews |-> NoFields, reviewCount |-> 0])
           ELSE Respond(404, "Book not found")

\* GET /isbn/:isbn.  JSON leaves out a book that is a function.
getBookByIsbnPromise(r) ==
    LET isbn == r.path[2]
    IN  /\ req' = r
        /\ handler' = "getBookByIsbn"
        /\ UNCHANGED <<users, books, session, lastLogin, objectCtor>>
        /\ \E failed \in BOOLEAN :
             IF failed
             THEN RespondWith(500, "Error retrieving book",
                              [isbn |-> isbn,
                               error |-> "Simulated network timeout"])
             ELSE IF HasBook(isbn)
                  THEN RespondWith(200, "Book retrieved successfully",
                                   [isbn |-> isbn,
                                    book |-> IF isbn \in DOMAIN books
                                             THEN <<books[isbn]>> ELSE <<>>])
                  ELSE RespondWith(404, "Book not found", [isbn |-> isbn])

\* Variant: the catalog is answered as it was seeded
getBooksAsync_seed(r) ==
    /\ req' = r
    /\ handler' = "getBooks"
    /\ UNCHANGED <<users, books, session, lastLogin, objectCtor>>
    /\ \E failed \in BOOLEAN :
         IF failed
         THEN RespondWith(500, "Error retrieving books using Async/Await",
                          [error |-> "Simulated database connection error"])
         ELSE RespondWith(200, "Books retrieved successfully using Async/Await",
                          [books |-> SeedBooks,
                           totalBooks |-> Cardinality(DOMAIN SeedBooks)])

\* GET /
getBooksAsync(r) ==
    /\ req' = r
    /\ handler' = "getBooks"
    /\ UNCHANGED <<users, books, session, lastLogin, objectCtor>>
    /\ \E failed \in BOOLEAN :
         IF failed
         THEN RespondWith(500, "Error retrieving books using Async/Await",
                          [error |-> "Simulated database connection error"])
         ELSE RespondWith(200, "Books retrieved successfully using Async/Await",
                          [books |-> books,
                           totalBooks |-> Cardinality(DOMAIN books)])

----------------------------------------------------------------------------
\* general.js: the delayed reads.  A delayed read waits in setTimeout between
\* its stages; each timer callback runs to completion and is one step.

Without(list, i) == SubSeq(list, 1, i - 1) \o SubSeq(list, i + 1, Len(list))

\* The review maps of the catalog
ReviewMaps == [k \in DOMAIN books |-> books[k].reviews]

\* The request has arrived and its first timer is set
Task(r, stage) ==
    [req |-> r, stage |-> stage, found |-> <<>>, seen |-> ReviewMaps]

\* The entry pushed for a matching book; reviews is the book's own map
Match(isbn) ==
    [author |-> books[isbn].author, title |-> books[isbn].title,
     reviews |-> books[isbn].reviews, isbn |-> isbn]

Matches(found) == [i \in DOMAIN found |-> Match(found[i])]

\* The ids of the books found by a sorted list of entries
IdsOf(list) == [i \in DOMAIN list |-> list[i].isbn]

\* The loop over books: the ids whose field contains param, case ignored
scan(field, param) ==
    SelectSeq(ForIn(books),
              LAMBDA isbn : IncludesIgnoringCase[books[isbn][field]][param])

\* The timer of task i has run and the task waits for its next timer
resolve(i, stage, found) ==
    /\ flight' = [flight EXCEPT ![i].stage = stage, ![i].found = found]
    /\ UNCHANGED <<users, books, session, lastLogin, objectCtor,
                   req, res, handler, onArrival>>

\* Variant: answering empties the review maps the answer refers to
settle_drained(i, name, status, message, data) ==
    /\ flight' = Without(flight, i)
    /\ onArrival' = flight[i].seen
    /\ req' = flight[i].req
    /\ handler' = name
    /\ RespondWith(status, message, data)
    /\ books' = [k \in DOMAIN books |-> [books[k] EXCEPT !.reviews = NoFields]]
    /\ UNCHANGED <<users, session, lastLogin, objectCtor>>

\* Task i is answered and is over
settle(i, name, status, message, data) ==
    /\ flight' = Without(flight, i)
    /\ onArrival' = flight[i].seen
    /\ req' = flight[i].req
    /\ handler' = name
    /\ RespondWith(status, message, data)
    /\ UNCHANGED <<users, books, session, lastLogin, objectCtor>>

\* Variant: the error is answered and the task goes on to its next timer
reject_goOn(i, name, message, error) ==
    /\ flight' = [flight EXCEPT ![i].stage = "process"]
    /\ onArrival' = flight[i].seen
    /\ req' = flight[i].req
    /\ handler' = name
    /\ RespondWith(500, message, [error |-> error])
    /\ UNCHANGED <<users, books, session, lastLogin, objectCtor>>

\* reject(new Error(error)): the catch answers 500 and the task is over
reject(i, name, message, error) ==
    settle(i, name, 500, message, [error |-> error])

\* Variant: an empty result is answered 200
found_always(i, name, list, okMessage, noneMessage) ==
    settle(i, name, 200, okMessage,
           [books |-> list, booksFound |-> Len(list)])

\* Variant: nothing is sent for an empty result
found_silent(i, name, list, okMessage, noneMessage) ==
    IF Len(list) > 0
    THEN settle(i, name, 200, okMessage,
                [books |-> list, booksFound |-> Len(list)])
    ELSE UNCHANGED vars

\* if (books.length > 0) 200 with the books, else 404
found(i, name, list, okMessage, noneMessage) ==
    IF Len(list) > 0
    THEN settle(i, name, 200, okMessage,
                [books |-> list, booksFound |-> Len(list)])
    ELSE settle(i, name, 404, noneMessage, [booksFound |-> 0])

\* GET /author/:author, the 20ms timer of performAuthorSearch: the failure
\* draw, then the loop over books
performAuthorSearch(i) ==
    \E failed \in BOOLEAN :
       IF failed
       THEN reject(i, "author",
                   "Error searching for books by author using Async/Await",
                   "Simulated database connection timeout")
       ELSE resolve(i, "sort", scan("author", flight[i].req.path[2]))

\* Variant: the matches are answered in the order of the loop
authorSorted_asFound(i) ==
    found(i, "author", Matches(flight[i].found),
          "Books by author retrieved successfully using Async/Await",
          "No books found by author using Async/Await")

\* GET /author/:author, the 5ms timer before the sort by title, and the
\* answer
authorSorted(i) ==
    found(i, "author", sort(Matches(flight[i].found), "title"),
          "Books by author retrieved successfully using Async/Await",
          "No books found by author using Async/Await")

\* GET /title/:title, the 8ms timer of initiateSearch
initiateSearch(i) ==
    \E failed \in BOOLEAN :
       IF failed
       THEN reject(i, "title",
                   "Error searching for books with title using Promise Chaining",
                   "Search initialization failed")
       ELSE resolve(i, "search", <<>>)

\* GET /title/:title, the 12ms timer of performTitleSearch
performTitleSearch(i) ==
    \E failed \in BOOLEAN :
       IF failed
       THEN reject(i, "title",
                   "Error searching for books with title using Promise Chaining",
                   "Database connection timeout during search")
       ELSE resolve(i, "process", scan("title", flight[i].req.path[2]))

\* Variant: the entries carry copies of the review maps made when the
\* request arrived
processResults_copied(i) ==
    \E failed \in BOOLEAN :
       IF failed
       THEN reject(i, "title",
                   "Error searching for books with title using Promise Chaining",
                   "Result processing failed")
       ELSE found(i, "title",
                  sort([k \in DOMAIN flight[i].found |->
                          [author |-> books[flight[i].found[k]].author,
                           title |-> books[flight[i].found[k]].title,
                           reviews |-> flight[i].seen[flight[i].found[k]],
                           isbn |-> flight[i].found[k]]], "author"),
                  "Books with title retrieved successfully using Promise Chaining",
                  "No books found with title using Promise Chaining")

\* GET /title/:title, the 5ms timer of processResults: the sort by author,
\* and the answer of the last .then
processResults(i) ==
    \E failed \in BOOLEAN :
       IF failed
       THEN reject(i, "title",
                   "Error searching for books with title using Promise Chaining",
                   "Result processing failed")
       ELSE found(i, "title", sort(Matches(flight[i].found), "author"),
                  "Books with title retrieved successfully using Promise Chaining",
                  "No books found with title using Promise Chaining")

\* The pending timer of task i runs
timeout(i) ==
    LET t == flight[i]
    IN  IF t.req.path = <<>>
        THEN /\ getBooksAsync(t.req)
             /\ flight' = Without(flight, i)
             /\ onArrival' = t.seen
        ELSE IF t.req.path[1] = "isbn"
        THEN /\ getBookByIsbnPromise(t.req)
             /\ flight' = Without(flight, i)
             /\ onArrival' = t.seen
        ELSE IF t.req.path[1] = "author"
        THEN IF t.stage = "query"
             THEN performAuthorSearch(i) ELSE authorSorted(i)
        ELSE IF t.stage = "init" THEN initiateSearch(i)
        ELSE IF t.stage = "search" THEN performTitleSearch(i)
        ELSE processResults(i)

----------------------------------------------------------------------------
\* index.js: routing

\* app.use(mount, ...) runs for the paths that start with the mount path
MountedAt(mount, path) ==
    /\ Len(path) >= Len(mount)
    /\ SubSeq(path, 1, Len(mount)) = mount

\* Variant: the gate is mounted on everything under /customer/
AuthPath_customer(path) ==
    MountedAt(<<"customer">>, path) /\ Len(path) > 1

\* app.use("/customer/auth/*", auth): something follows /customer/auth/
AuthPath(path) ==
    MountedAt(<<"customer", "auth">>, path) /\ Len(path) > 2

\* express answers a request no route matches with 404
NoRoute(r) ==
    /\ req' = r
    /\ handler' = "none"
    /\ Respond(404, "Cannot " \o r.method)
    /\ UNCHANGED <<users, books, session, lastLogin, objectCtor>>

\* app.use("/customer", customer_routes); app.use("/", genl_routes)
Router(r) ==
    IF r.method = "POST" /\ r.path = <<"customer", "login">>
    THEN login(r)
    ELSE IF /\ r.method = "PUT"
            /\ Len(r.path) = 4
            /\ SubSeq(r.path, 1, 3) = <<"customer", "auth", "review">>
    THEN putReview(r)
    ELSE IF /\ r.method = "DELETE"
            /\ Len(r.path) = 4
            /\ SubSeq(r.path, 1, 3) = <<"customer", "auth", "review">>
    THEN deleteReview(r)
    ELSE IF r.method = "POST" /\ r.path = <<"register">>
    THEN register(r)
    ELSE IF r.method = "GET" /\ r.path = <<>>
    THEN getBooksAsync(r)
    ELSE IF r.method = "GET" /\ Len(r.path) = 2 /\ r.path[1] = "isbn"
    THEN getBookByIsbnPromise(r)
    ELSE IF r.method = "GET" /\ Len(r.path) = 2 /\ r.path[1] = "review"
    THEN getReviews(r)
    ELSE NoRoute(r)

\* The gate ends the request itself
Reject(r, status, message) ==
    /\ req' = r
    /\ handler' = "none"
    /\ Respond(status, message)
    /\ UNCHANGED <<users, books, session, lastLogin, objectCtor>>

\* Variant: a session without a credential is let through
auth_open(r) ==
    IF Authorization(r) # <<>>
    THEN LET token == Authorization(r)[1].accessToken
         IN  IF jwtVerify(token, SignKey)
             THEN Router([r EXCEPT !.user = <<Payload(token)>>])
             ELSE Reject(r, 403, "User not authenticated")
    ELSE Router(r)

\* Variant: the answer names the cause of the failed verification
auth_cause(r) ==
    IF Authorization(r) # <<>>
    THEN LET token == Authorization(r)[1].accessToken
         IN  IF jwtVerify(token, SignKey)
             THEN Router([r EXCEPT !.user = <<Payload(token)>>])
             ELSE IF token.sig # SignKey
                  THEN Reject(r, 403, "invalid signature")
                  ELSE Reject(r, 403, "jwt expired")
    ELSE Reject(r, 403, "User not logged in")

auth(r) ==
    IF Authorization(r) # <<>>
    THEN LET token == Authorization(r)[1].accessToken
         IN  IF jwtVerify(token, SignKey)
             THEN Router([r EXCEPT !.user = <<Payload(token)>>])
             ELSE Reject(r, 403, "User not authenticated")
    ELSE Reject(r, 403, "User not logged in")

\* The middleware chain of the app for one request
Serve(r) == IF AuthPath(r.path) THEN auth(r) ELSE Router(r)

----------------------------------------------------------------------------
\* The requests clients make

RegisterRequest(b) == Request("POST", <<"register">>, 0, b, NoFields)

LoginRequest(s, b) ==
    Request("POST", <<"customer", "login">>, s, b, NoFields)

PutReviewRequest(s, isbn, b, q) ==
    Request("PUT", <<"customer", "auth", "review", isbn>>, s, b, q)

DeleteReviewRequest(s, isbn, b) ==
    Request("DELETE", <<"customer", "auth", "review", isbn>>, s, b, NoFields)

GetReviewsRequest(isbn) ==
    Request("GET", <<"review", isbn>>, 0, NoFields, NoFields)

GetByIdRequest(isbn) ==
    Request("GET", <<"isbn", isbn>>, 0, NoFields, NoFields)

ListAllRequest == Request("GET", <<>>, 0, NoFields, NoFields)

\* A body that names another user than the one of the session
Spoof == [username |-> "bob"]

\* What a PUT carries: any query without a body, one query with Spoof
PutInputs ==
    {<<NoFields, q>> : q \in Queries}
        \cup {<<Spoof, [review |-> "Hated it"]>>}

\* Variant: a request is served only when no delayed read is waiting
Client_blocked(r) ==
    /\ flight = <<>>
    /\ Serve(r)
    /\ UNCHANGED <<now, pending, answered, before, flight, onArrival>>

\* One request, served from arrival to response
Client(r) ==
    Serve(r) /\ UNCHANGED <<now, pending, answered, before, flight, onArrival>>

Register == \E b \in Bodies : Client(RegisterRequest(b))

Login == \E s \in DOMAIN session, b \in Bodies : Client(LoginRequest(s, b))

PutReview ==
    \E s \in DOMAIN session, isbn \in Isbns, i \in PutInputs :
        Client(PutReviewRequest(s, isbn, i[1], i[2]))

DeleteReview ==
    \E s \in DOMAIN session, isbn \in Isbns, b \in {NoFields, Spoof} :
        Client(DeleteReviewRequest(s, isbn, b))

GetReviews == \E isbn \in Isbns : Client(GetReviewsRequest(isbn))

GetById == \E isbn \in Isbns : Client(GetByIdRequest(isbn))

ListAll == Client(ListAllRequest)

\* Time passes between requests
Tick ==
    /\ \E t \in Times : t > now /\ now' = t
    /\ UNCHANGED <<users, books, session, req, res, handler, lastLogin,
                   pending, answered, objectCtor, before, flight, onArrival>>

\* Register requests in flight: received in one order, dispatched to the
\* handler in any order, each handler call running to completion
RaceBodies ==
    {[username |-> "alice", password |-> "pw1"],
     [username |-> "alice", password |-> "pw2"],
     [username |-> "bob", password |-> "pw1"],
     [username |-> "alice", password |-> ""]}

SubmitRegister ==
    /\ Len(pending) + Len(answered) < MaxRegs
    /\ \E b \in RaceBodies : pending' = Append(pending, b)
    /\ UNCHANGED <<users, books, session, now, req, res, handler, lastLogin,
                   answered, objectCtor, before, flight, onArrival>>

DispatchRegister ==
    \E i \in 1..Len(pending) :
        /\ Serve(Request("POST", <<"register">>, 0, pending[i], NoFields))
        /\ pending' = SubSeq(pending, 1, i - 1)
                         \o SubSeq(pending, i + 1, Len(pending))
        /\ answered' = Append(answered, [status |-> res'.status,
                                         body |-> pending[i]])
        /\ UNCHANGED <<now, before, flight, onArrival>>

Init ==
    /\ users = <<>>
    /\ books = SeedBooks
    /\ session = [s \in OneClient |-> [authorization |-> <<>>]]
    /\ now = 0
    /\ req = NoRequest
    /\ res = [data |-> NoFields, status |-> 0, message |-> ""]
    /\ handler = "none"
    /\ lastLogin = [s \in OneClient |-> <<>>]
    /\ pending = <<>>
    /\ answered = <<>>
    /\ objectCtor = NoFields
    /\ before = [req |-> NoRequest,
                 res |-> [data |-> NoFields, status |-> 0, message |-> ""]]
    /\ flight = <<>>
    /\ onArrival = NoFields

Next ==
    \/ Register
    \/ Login
    \/ PutReview
    \/ DeleteReview
    \/ GetReviews
    \/ GetById
    \/ ListAll
    \/ Tick

Spec == Init /\ [][Next]_vars

NextRegister == SubmitRegister \/ DispatchRegister

SpecRegister == Init /\ [][NextRegister]_vars

\* Requests whose username or isbn is a name that object literals inherit
KeyBodies ==
    {[username |-> "alice", password |-> "pw1"],
     [username |-> "__proto__", password |-> "pw1"]}

KeyIsbns == {"1", "constructor"}

KeyQueries == {NoFields, [review |-> "Loved it"]}

\* One request, served from arrival to response, the one before remembered
KeyClient(r) ==
    /\ Serve(r)
    /\ before' = [req |-> req, res |-> res]
    /\ UNCHANGED <<now, pending, answered, flight, onArrival>>

KeyRegister == \E b \in KeyBodies : KeyClient(RegisterRequest(b))

KeyLogin ==
    \E s \in DOMAIN session, b \in KeyBodies : KeyClient(LoginRequest(s, b))

KeyPutReview ==
    \E s \in DOMAIN session, isbn \in KeyIsbns, q \in KeyQueries :
        KeyClient(PutReviewRequest(s, isbn, NoFields, q))

KeyDeleteReview ==
    \E s \in DOMAIN session, isbn \in KeyIsbns :
        KeyClient(DeleteReviewRequest(s, isbn, NoFields))

KeyGetReviews == \E isbn \in KeyIsbns : KeyClient(GetReviewsRequest(isbn))

KeyGetById == \E isbn \in KeyIsbns : KeyClient(GetByIdRequest(isbn))

NextKeys ==
    \/ KeyRegister
    \/ KeyLogin
    \/ KeyPutReview
    \/ KeyDeleteReview
    \/ KeyGetReviews
    \/ KeyGetById

SpecKeys == Init /\ [][NextKeys]_vars

\* A reader of the catalog who also writes one review
Reader == [username |-> "alice", password |-> "pw1"]

ReaderIsbn == "3"

AuthorQueries == {"unknown", "an", "JANE AUSTEN", "NoSuchAuthor"}

TitleQueries == {"the", "FAIRY TALES", "NoSuchTitle"}

AuthorRequest(param) ==
    Request("GET", <<"author", param>>, 0, NoFields, NoFields)

TitleRequest(param) ==
    Request("GET", <<"title", param>>, 0, NoFields, NoFields)

ReaderRegister == Client(RegisterRequest(Reader))

ReaderLogin == \E s \in DOMAIN session : Client(LoginRequest(s, Reader))

ReaderPutReview ==
    \E s \in DOMAIN session :
        Client(PutReviewRequest(s, ReaderIsbn, NoFields,
                                [review |-> "Loved it"]))

ReaderDeleteReview ==
    \E s \in DOMAIN session :
        Client(DeleteReviewRequest(s, ReaderIsbn, NoFields))

ReaderGetReviews == Client(GetReviewsRequest(ReaderIsbn))

\* A delayed read arrives: its handler sets the first timer and returns
arrive(r, stage) ==
    /\ flight' = Append(flight, Task(r, stage))
    /\ UNCHANGED <<users, books, session, now, req, res, handler, lastLogin,
                   pending, answered, objectCtor, before, onArrival>>

\* A pending timer runs
Timeout ==
    \E i \in 1..Len(flight) :
        timeout(i) /\ UNCHANGED <<now, pending, answered, before>>

SearchAuthor ==
    /\ Len(flight) < MaxSearches
    /\ \E param \in AuthorQueries : arrive(AuthorRequest(param), "query")

SearchTitle ==
    /\ Len(flight) < MaxSearches
    /\ \E param \in TitleQueries : arrive(TitleRequest(param), "init")

NextSearch ==
    \/ ReaderRegister
    \/ ReaderLogin
    \/ ReaderPutReview
    \/ SearchAuthor
    \/ SearchTitle
    \/ Timeout

SpecSearch == Init /\ [][NextSearch]_vars

\* Delayed reads of the four kinds wait while other requests are served
DelayListAll == Len(flight) < MaxFlight /\ arrive(ListAllRequest, "timer")

DelayGetById ==
    Len(flight) < MaxFlight /\ arrive(GetByIdRequest(ReaderIsbn), "timer")

DelayAuthor ==
    Len(flight) < MaxFlight /\ arrive(AuthorRequest("an"), "query")

DelayTitle ==
    Len(flight) < MaxFlight /\ arrive(TitleRequest("the"), "init")

NextDelay ==
    \/ ReaderRegister
    \/ ReaderLogin
    \/ ReaderPutReview
    \/ ReaderDeleteReview
    \/ ReaderGetReviews
    \/ DelayListAll
    \/ DelayGetById
    \/ DelayAuthor
    \/ DelayTitle
    \/ Timeout

SpecDelay == Init /\ [][NextDelay]_vars

\* Two client sessions; the PUTs of both are in flight together
TwoClients == {1, 2}

TwoBodies ==
    {[username |-> "alice", password |-> "pw1"],
     [username |-> "bob", password |-> "pw1"]}

InitTwo ==
    /\ users = <<>>
    /\ books = SeedBooks
    /\ session = [s \in TwoClients |-> [authorization |-> <<>>]]
    /\ now = 0
    /\ req = NoRequest
    /\ res = [data |-> NoFields, status |-> 0, message |-> ""]
    /\ handler = "none"
    /\ lastLogin = [s \in TwoClients |-> <<>>]
    /\ pending = <<>>
    /\ answered = <<>>
    /\ objectCtor = NoFields
    /\ before = [req |-> NoRequest,
                 res |-> [data |-> NoFields, status |-> 0, message |-> ""]]
    /\ flight = <<>>
    /\ onArrival = NoFields

TwoRegister == \E b \in TwoBodies : Client(RegisterRequest(b))

TwoLogin ==
    \E s \in DOMAIN session, b \in TwoBodies : Client(LoginRequest(s, b))

\* A PUT is received; it waits for the event loop to dispatch it
SubmitPut ==
    /\ Len(pending) < MaxPuts
    /\ \E s \in DOMAIN session, text \in Texts :
          pending' = Append(pending,
                            PutReviewRequest(s, "1", NoFields,
                                             [review |-> text]))
    /\ UNCHANGED <<users, books, session, now, req, res, handler, lastLogin,
                   answered, objectCtor, before, flight, onArrival>>

\* A waiting PUT is dispatched: gate and handler run to completion
DispatchPut ==
    \E i \in 1..Len(pending) :
        /\ Serve(pending[i])
        /\ pending' = Without(pending, i)
        /\ UNCHANGED <<now, answered, before, flight, onArrival>>

\* The clock reaches the expiry of the tokens issued at the start
TwoTick ==
    /\ now < ExpiresIn
    /\ now' = ExpiresIn
    /\ UNCHANGED <<users, books, session, req, res, handler, lastLogin,
                   pending, answered, objectCtor, before, flight, onArrival>>

NextTwo == TwoRegister \/ TwoLogin \/ SubmitPut \/ DispatchPut \/ TwoTick

SpecTwo == InitTwo /\ [][NextTwo]_vars

\* The searches beside the requests of one client, one search of each kind
\* at a time; every timer that is set fires in the end
Waiting(kind) ==
    \E i \in 1..Len(flight) :
        Len(flight[i].req.path) = 2 /\ flight[i].req.path[1] = kind

LiveAuthor ==
    /\ ~Waiting("author")
    /\ \E param \in {"an", "NoSuchAuthor"} :
          arrive(AuthorRequest(param), "query")

LiveTitle == ~Waiting("title") /\ arrive(TitleRequest("the"), "init")

\* The timer of the i-th waiting read fires
TimeoutAt(i) ==
    /\ i \in 1..Len(flight)
    /\ timeout(i)
    /\ UNCHANGED <<now, pending, answered, before>>

LivePositions == {1, 2}

NextLive ==
    \/ ReaderRegister
    \/ ReaderLogin
    \/ ReaderPutReview
    \/ LiveAuthor
    \/ LiveTitle
    \/ Timeout

SpecLive ==
    /\ Init
    /\ [][NextLive]_vars
    /\ \A i \in LivePositions : WF_vars(TimeoutAt(i))

----------------------------------------------------------------------------
\* Vocabulary of the properties

\* A step that handles a request (Tick is the only step that moves the clock)
RequestStep == now' = now

IsReview(r) ==
    /\ r.method \in {"PUT", "DELETE"}
    /\ Len(r.path) = 4
    /\ r.path[1] = "customer" /\ r.path[2] = "auth" /\ r.path[3] = "review"

IsLogin(r) == r.method = "POST" /\ r.path = <<"customer", "login">>

IsRegister(r) == r.method = "POST" /\ r.path = <<"register">>

ReviewHandlers == {"putReview", "deleteReview"}

\* A body field that is missing or empty
Missing(b, k) == k \notin DOMAIN b \/ b[k] = ""

HasBoth(b) == ~Missing(b, "username") /\ ~Missing(b, "password")

\* The directory holds a record with this name / with this name and password
Registered(dir, u) == \E i \in 1..Len(dir) : dir[i].username = u

RegisteredWith(dir, u, p) ==
    \E i \in 1..Len(dir) : dir[i].username = u /\ dir[i].password = p

NotLoggedIn ==
    [data |-> NoFields, status |-> 403, message |-> "User not logged in"]

NotAuthenticated ==
    [data |-> NoFields, status |-> 403, message |-> "User not authenticated"]

----------------------------------------------------------------------------
\* C1: a PUT or DELETE /customer/auth/review/:id request made in a session
\* that stores no credential is answered 403 "User not logged in" by the
\* gate; no review handler runs and the catalog, the user directory and the
\* session are unchanged.
C1_NoCredentialRejected ==
    [][ (/\ RequestStep
         /\ IsReview(req')
         /\ session[req'.sid].authorization = <<>>)
        => /\ res' = NotLoggedIn
           /\ handler' = "none"
           /\ users' = users /\ books' = books /\ session' = session ]_vars

\* A review request was refused for want of a credential although users are
\* registered
C1_Witness ==
    /\ IsReview(req)
    /\ res = NotLoggedIn
    /\ handler = "none"
    /\ session[req.sid].authorization = <<>>
    /\ users # <<>>

----------------------------------------------------------------------------
\* C2: when the session stores a credential the gate verifies its token.  If
\* the verification fails the request is answered 403 "User not
\* authenticated", whatever the cause, the handler does not run and no store
\* changes; if it succeeds the token's payload (with the username) is
\* attached to the request and the review handler runs.
C2_GateVerifiesToken ==
    [][ (/\ RequestStep
         /\ IsReview(req')
         /\ session[req'.sid].authorization # <<>>)
        => LET token == session[req'.sid].authorization[1].accessToken
           IN  IF token.sig = "access" /\ now < token.exp
               THEN /\ handler' \in ReviewHandlers
                    /\ req'.user = <<[data |-> token.data, iat |-> token.iat,
                                      exp |-> token.exp]>>
                    /\ req'.user[1].data \in Usernames
               ELSE /\ res' = NotAuthenticated
                    /\ handler' = "none"
                    /\ users' = users /\ books' = books
                    /\ session' = session ]_vars

\* A review request was refused because the stored token had expired
C2_Witness ==
    /\ IsReview(req)
    /\ res = NotAuthenticated
    /\ handler = "none"
    /\ session[req.sid].authorization # <<>>
    /\ now >= session[req.sid].authorization[1].accessToken.exp

----------------------------------------------------------------------------
----------------------------------------------------------------------------
----------------------------------------------------------------------------
----------------------------------------------------------------------------
----------------------------------------------------------------------------
----------------------------------------------------------------------------
\* C8: user records are never updated or deleted.  The directory only grows
\* at its end, by the record of a register answered 200; a register that
\* names a registered user (and carries a password) is answered 409 and
\* adds nothing, whatever its password; a login that names a registered user
\* is answered 200 with the registered password and 404 with any other.
C8_RecordsArePermanent ==
    [][ /\ Len(users') >= Len(users)
        /\ SubSeq(users', 1, Len(users)) = users
        /\ (RequestStep /\ IsRegister(req') /\ res'.status = 200)
             => /\ users' = Append(users, [username |-> req'.body.username,
                                           password |-> req'.body.password])
                /\ Registered(users', req'.body.username)
        /\ users' # users => (IsRegister(req') /\ res'.status = 200)
        /\ (/\ RequestStep
            /\ IsRegister(req')
            /\ HasBoth(req'.body)
            /\ Registered(users, req'.body.username))
             => res'.status = 409 /\ users' = users
        /\ (/\ RequestStep
            /\ IsLogin(req')
            /\ HasBoth(req'.body)
            /\ Registered(users, req'.body.username))
             => \E i \in 1..Len(users) :
                   /\ users[i].username = req'.body.username
                   /\ req'.body.password = users[i].password
                        => res'.status = 200
                   /\ req'.body.password # users[i].password
                        => res'.status = 404 ]_vars

\* A register that names a registered user with another password was
\* answered 409, and the registered password is the one still stored
C8_Witness ==
    /\ IsRegister(req)
    /\ res.status = 409
    /\ Registered(users, req.body.username)
    /\ ~RegisteredWith(users, req.body.username, req.body.password)

----------------------------------------------------------------------------
\* C9: under every order in which register requests in flight are
\* dispatched, the directory holds at most one record per username, and of
\* the dispatched requests that name the same user (and carry a password)
\* exactly one was answered 200, all others 409.
C9_OneRecordPerUsername ==
    /\ \A i, j \in 1..Len(users) :
          users[i].username = users[j].username => i = j
    /\ \A u \in Usernames :
          LET for == {i \in 1..Len(answered) :
                        /\ answered[i].body.username = u
                        /\ HasBoth(answered[i].body)}
              ok == {i \in for : answered[i].status = 200}
          IN  /\ for # {} => Cardinality(ok) = 1
              /\ \A i \in for \ ok : answered[i].status = 409
              /\ \A i \in ok :
                    RegisteredWith(users, u, answered[i].body.password)

\* Three requests for the same user were in flight together and have all
\* been dispatched, the one submitted last first
C9_Witness ==
    /\ pending = <<>>
    /\ Len(answered) >= 3
    /\ \A i \in 1..3 : answered[i].body.username = "alice"
    /\ answered[1].body.password = "pw2"
    /\ answered[1].status = 200
    /\ answered[2].body.password = "pw1"
    /\ answered[2].status = 409

----------------------------------------------------------------------------
\* C10: a register request whose username or password is missing or empty
\* is answered 400 and leaves the directory unchanged, also when its
\* username is already registered (never 409).
C10_PresenceCheckFirst ==
    [][ (/\ RequestStep
         /\ IsRegister(req')
         /\ ~HasBoth(req'.body))
        => res'.status = 400 /\ users' = users ]_vars

\* A register that names a registered user and has no password was
\* answered 400
C10_Witness ==
    /\ IsRegister(req)
    /\ res.status = 400
    /\ "username" \in DOMAIN req.body
    /\ Registered(users, req.body.username)
    /\ Missing(req.body, "password")

----------------------------------------------------------------------------
\* Vocabulary of the properties about reviews and reads

IsPut(r) == IsReview(r) /\ r.method = "PUT"

IsDelete(r) == IsReview(r) /\ r.method = "DELETE"

IsGetReviews(r) ==
    r.method = "GET" /\ Len(r.path) = 2 /\ r.path[1] = "review"

IsGetById(r) == r.method = "GET" /\ Len(r.path) = 2 /\ r.path[1] = "isbn"

IsListAll(r) == r.method = "GET" /\ r.path = <<>>

\* The user named by the credential of a session
SessionUser(s) == session[s].authorization[1].username

\* A user's entry in the review map of a catalog book: <<text>> or <<>>
EntryOf(catalog, isbn, u) ==
    IF u \in DOMAIN catalog[isbn].reviews
    THEN <<catalog[isbn].reviews[u]>> ELSE <<>>

----------------------------------------------------------------------------
\* C11: round trip.  For every catalog id, logged-in user and non-empty
\* text, a GET /review/:id that follows a putReview(id, user, text) answered
\* 200 returns a map that contains user -> text.
C11_RoundTrip ==
    [][ (/\ RequestStep
         /\ IsPut(req) /\ handler = "putReview" /\ res.status = 200
         /\ req.path[4] \in DOMAIN SeedBooks
         /\ IsGetReviews(req') /\ req'.path[2] = req.path[4])
        => /\ res'.status = 200
           /\ SessionUser(req.sid) \in DOMAIN res'.data.reviews
           /\ res'.data.reviews[SessionUser(req.sid)] = req.query.review
      ]_vars

----------------------------------------------------------------------------
\* C12: a putReview answered 200 leaves exactly one entry for the acting
\* user, holding the new text: an earlier text of that user is gone, the
\* number of entries does not grow when the user had one, the entries of
\* other users stay; repeating the same putReview changes nothing more.
C12_PutOverwrites ==
    [][ (/\ RequestStep /\ handler' = "putReview" /\ res'.status = 200
         /\ req'.path[4] \in DOMAIN SeedBooks)
        => LET isbn == req'.path[4]
               u == lastLogin[req'.sid][1].username
               old == books[isbn].reviews
               new == books'[isbn].reviews
           IN  /\ DOMAIN old \subseteq DOMAIN new
               /\ DOMAIN new \subseteq DOMAIN old \cup {u}
               /\ u \in DOMAIN new => new[u] = req'.query.review
               /\ u \in DOMAIN old
                    => Cardinality(DOMAIN new) = Cardinality(DOMAIN old)
               /\ \A v \in DOMAIN old \ {u} : new[v] = old[v]
               /\ (req = req' /\ handler = "putReview" /\ res.status = 200)
                    => books' = books ]_vars

\* A putReview was answered 200 on a book that holds one entry for each of
\* two users, with different texts
C12_Witness ==
    /\ IsPut(req) /\ handler = "putReview" /\ res.status = 200
    /\ DOMAIN books["1"].reviews = {"alice", "bob"}
    /\ books["1"].reviews["alice"] # books["1"].reviews["bob"]
    /\ books["1"].reviews[SessionUser(req.sid)] = req.query.review

----------------------------------------------------------------------------
\* C13: a deleteReview(id, user) that follows a putReview(id, user, text)
\* answered 200 is answered 200 and removes the user's entry; a second
\* deleteReview(id, user) right after it is answered 404.
C13_DeleteThenDeleteAgain ==
    [][ /\ (/\ RequestStep
            /\ IsPut(req) /\ res.status = 200
            /\ req.path[4] \in DOMAIN SeedBooks
            /\ IsDelete(req')
            /\ req'.path = req.path /\ req'.sid = req.sid)
             => /\ res'.status = 200
                /\ SessionUser(req.sid)
                     \notin DOMAIN books'[req.path[4]].reviews
        /\ (/\ RequestStep
            /\ IsPut(before.req) /\ before.res.status = 200
            /\ before.req.path[4] \in DOMAIN SeedBooks
            /\ IsDelete(req)
            /\ req.path = before.req.path /\ req.sid = before.req.sid
            /\ IsDelete(req')
            /\ req'.path = req.path /\ req'.sid = req.sid)
             => res'.status = 404 ]_vars

----------------------------------------------------------------------------
\* C14: deleteReview answers 404 exactly when the id is not in the catalog
\* or the book has no review by the user of the session; then no review map
\* changes, and another user's review is never removed.
C14_Delete404Exactly ==
    [][ (RequestStep /\ handler' = "deleteReview")
        => LET isbn == req'.path[4]
               u == SessionUser(req'.sid)
           IN  /\ res'.status = 404
                    <=> \/ isbn \notin DOMAIN SeedBooks
                        \/ u \notin DOMAIN books[isbn].reviews
               /\ res'.status = 404
                    => books' = books /\ objectCtor' = objectCtor
               /\ \A k \in DOMAIN books :
                    \A v \in DOMAIN books[k].reviews \ {u} :
                       EntryOf(books', k, v) = EntryOf(books, k, v) ]_vars

----------------------------------------------------------------------------
\* C15: putReview answers 400 and changes nothing when the text is missing
\* or empty; it answers 400 as well when the id is not in the catalog, and
\* then creates no review entry and no book.
C15_Put400 ==
    [][ (RequestStep /\ handler' = "putReview")
        => /\ Missing(req'.query, "review")
                => /\ res'.status = 400
                   /\ books' = books /\ objectCtor' = objectCtor
           /\ req'.path[4] \notin DOMAIN SeedBooks
                => /\ res'.status = 400
                   /\ books' = books /\ objectCtor' = objectCtor ]_vars

----------------------------------------------------------------------------
\* C16: the entry of a user B in a review map is created, changed or
\* removed only by a review request made in a session whose credential
\* names B, whatever the request carries: no request of a session whose
\* credential names another user touches it.
C16_OwnReviewsOnly ==
    [][ \A isbn \in DOMAIN books :
          \A B \in Usernames :
             EntryOf(books', isbn, B) # EntryOf(books, isbn, B)
               => /\ RequestStep
                  /\ handler' \in ReviewHandlers
                  /\ req'.path[4] = isbn
                  /\ lastLogin[req'.sid] # <<>>
                  /\ lastLogin[req'.sid][1].username = B ]_vars

\* A putReview whose body names bob was answered 200 in alice's session:
\* it wrote alice's entry, and bob's earlier review is as he wrote it
C16_Witness ==
    /\ IsPut(req) /\ handler = "putReview" /\ res.status = 200
    /\ req.body = Spoof
    /\ SessionUser(req.sid) = "alice"
    /\ EntryOf(books, "1", "alice") = <<"Hated it">>
    /\ EntryOf(books, "1", "bob") = <<"Loved it">>

----------------------------------------------------------------------------
\* C17: every key of every book's review map is the username of a
\* registered user.
C17_ReviewersRegistered ==
    \A isbn \in DOMAIN books :
       \A u \in DOMAIN books[isbn].reviews : Registered(users, u)

\* A book holds the reviews of two registered users
C17_Witness ==
    /\ DOMAIN books["1"].reviews = {"alice", "bob"}
    /\ Len(users) = 2

----------------------------------------------------------------------------
----------------------------------------------------------------------------
\* C19: the catalog holds exactly the ten seeded ids with the seeded authors
\* and titles in every state, and a getById that no simulated failure hits
\* answers 200 with the seeded author and title for a seeded id and 404 for
\* any other id.
C19_CatalogFixed ==
    [][ /\ DOMAIN books' = DOMAIN SeedBooks
        /\ \A k \in DOMAIN SeedBooks :
              /\ books'[k].author = SeedBooks[k].author
              /\ books'[k].title = SeedBooks[k].title
        /\ (RequestStep /\ IsGetById(req') /\ res'.status # 500)
             => IF req'.path[2] \in DOMAIN SeedBooks
                THEN /\ res'.status = 200
                     /\ Len(res'.data.book) = 1
                     /\ res'.data.book[1].author =
                          SeedBooks[req'.path[2]].author
                     /\ res'.data.book[1].title =
                          SeedBooks[req'.path[2]].title
                ELSE res'.status = 404 ]_vars

----------------------------------------------------------------------------
\* C20 as stated: every GET / is answered 200 with the full catalog, never
\* with an error status.
C20_ListAllAlwaysSucceeds ==
    [][ (RequestStep /\ IsListAll(req'))
        => res'.status = 200 /\ res'.data.books = books ]_vars

\* C20 amended: every GET / is answered either 200 with the full current
\* catalog (all ten books, with their reviews) or, when the simulated
\* database error is drawn, 500 with that error; it changes no store.
C20_ListAllOrSimulatedError ==
    [][ (RequestStep /\ IsListAll(req'))
        => /\ handler' = "getBooks"
           /\ res'.status \in {200, 500}
           /\ res'.status = 200
                => /\ res'.data.books = books
                   /\ res'.data.totalBooks = 10
           /\ res'.status = 500
                => res'.data.error = "Simulated database connection error"
           /\ books' = books /\ users' = users /\ session' = session ]_vars

\* A GET / was answered 500 while the catalog holds a review
C20_Witness ==
    /\ IsListAll(req)
    /\ res.status = 500
    /\ books["1"].reviews # NoFields

----------------------------------------------------------------------------
\* Vocabulary of the properties about the delayed reads

IsAuthorSearch(r) ==
    r.method = "GET" /\ Len(r.path) = 2 /\ r.path[1] = "author"

IsTitleSearch(r) ==
    r.method = "GET" /\ Len(r.path) = 2 /\ r.path[1] = "title"

\* A step in which a waiting delayed read is answered
Answering == Len(flight') < Len(flight)

\* The error each stage of a delayed read reports when its failure is drawn
StageErrors ==
    [timer |-> {"Simulated database connection error",
                "Simulated network timeout"},
     query |-> {"Simulated database connection timeout"},
     sort |-> {},
     init |-> {"Search initialization failed"},
     search |-> {"Database connection timeout during search"},
     process |-> {"Result processing failed"}]

\* The stages of each kind of delayed read, in the order they run
StageRank ==
    [timer |-> 1, query |-> 1, sort |-> 2, init |-> 1, search |-> 2,
     process |-> 3]

\* Two characters that are the same letter, whatever their case
SameLetter(c, d) ==
    \/ c = d
    \/ \E k \in 1..26 : {c, d} = {UpperCase[k], LowerCase[k]}

\* part occurs in text, letter case ignored
OccursIgnoringCase(text, part) ==
    \E i \in 0..(Len(Spell[text]) - Len(Spell[part])) :
       \A k \in 1..Len(Spell[part]) :
          SameLetter(Spell[text][i + k], Spell[part][k])

\* The same, tabulated once for the strings of the model
Occurrences ==
    [text \in DOMAIN Spell |->
        [part \in DOMAIN Spell |-> OccursIgnoringCase(text, part)]]

ContainsIgnoringCase(text, part) == Occurrences[text][part]

\* text and other differ in the case of some letters, and in nothing else
DiffersOnlyInCase(text, other) ==
    /\ text # other
    /\ Len(Spell[text]) = Len(Spell[other])
    /\ \A k \in 1..Len(Spell[text]) :
          SameLetter(Spell[text][k], Spell[other][k])

\* The seeded titles and authors in ascending order
TitlesAscending ==
    <<"Fairy tales", "Le Père Goriot",
      "Molloy, Malone Dies, The Unnamable, the trilogy", "Njál's Saga",
      "One Thousand and One Nights", "Pride and Prejudice",
      "The Book Of Job", "The Divine Comedy", "The Epic Of Gilgamesh",
      "Things Fall Apart">>

AuthorsAscending ==
    <<"Chinua Achebe", "Dante Alighieri", "Hans Christian Andersen",
      "Honoré de Balzac", "Jane Austen", "Samuel Beckett", "Unknown">>

IdsAscending == <<"1", "2", "3", "4", "5", "6", "7", "8", "9", "10">>

RankIn(order, x) == CHOOSE k \in DOMAIN order : order[k] = x

\* The books of a search answer: those of a 200, none otherwise
Answered(r) == IF r.status = 200 THEN r.data.books ELSE <<>>

\* list holds exactly the books of ids, each once, as the catalog has them
ExactlyTheBooks(list, ids) ==
    /\ {list[i].isbn : i \in DOMAIN list} = ids
    /\ Len(list) = Cardinality(ids)
    /\ \A i \in DOMAIN list :
          /\ list[i].author = books[list[i].isbn].author
          /\ list[i].title = books[list[i].isbn].title
          /\ list[i].reviews = books[list[i].isbn].reviews

----------------------------------------------------------------------------
\* C21: when the failure of a stage of listAll, getById, searchByAuthor or
\* searchByTitle is drawn, the request is answered 500 with the error of the
\* stage it was in and leaves the waiting requests for good (its later
\* stages do not run, it is not started again), and the catalog and the
\* user directory are unchanged; a step that moves a request to its next
\* stage answers nothing and never moves it back.
C21_FailureIsFinal ==
    [][ /\ Answering
          => \E i \in 1..Len(flight) :
                /\ flight' = SubSeq(flight, 1, i - 1)
                               \o SubSeq(flight, i + 1, Len(flight))
                /\ req' = flight[i].req
                /\ res'.status \in {200, 404, 500}
                /\ res'.status = 500
                     => res'.data.error \in StageErrors[flight[i].stage]
        /\ (handler' \in {"getBooks", "getBookByIsbn", "author", "title"}
            /\ <<req', res', handler'>> # <<req, res, handler>>)
          => Answering
        /\ (~Answering /\ Len(flight') = Len(flight))
          => \A i \in 1..Len(flight) :
                /\ flight'[i].req = flight[i].req
                /\ StageRank[flight'[i].stage] >= StageRank[flight[i].stage]
        /\ Len(flight') > Len(flight)
          => /\ Len(flight') = Len(flight) + 1
             /\ SubSeq(flight', 1, Len(flight)) = flight
             /\ <<req', res', handler'>> = <<req, res, handler>>
        /\ flight' # flight
          => books' = books /\ users' = users /\ session' = session
      ]_vars

\* The sort stage of a title search drew its failure while another delayed
\* read was waiting and a user was registered
C21_Witness ==
    /\ IsTitleSearch(req) /\ res.status = 500
    /\ res.data.error = "Result processing failed"
    /\ Len(flight) = 1
    /\ Len(users) = 1

----------------------------------------------------------------------------
----------------------------------------------------------------------------
----------------------------------------------------------------------------
----------------------------------------------------------------------------
\* C25: when PUTs of two sessions of the same user wait together for the
\* same book, each is handled in one step, and after a PUT answered 200 the
\* user's entry is the text of that PUT, the one handled last: one entry,
\* one of the texts sent, with the entries of the other users as they
\* were; no other step changes a review.
C25_LastWriteWins ==
    [][ /\ (Len(pending') < Len(pending)
            /\ handler' = "putReview" /\ res'.status = 200)
          => LET isbn == req'.path[4]
                 u == SessionUser(req'.sid)
                 old == books[isbn].reviews
                 new == books'[isbn].reviews
             IN  /\ \E i \in 1..Len(pending) :
                       /\ req'.sid = pending[i].sid
                       /\ req'.path = pending[i].path
                       /\ req'.query = pending[i].query
                 /\ DOMAIN new = DOMAIN old \cup {u}
                 /\ new[u] = req'.query.review
                 /\ new[u] \in Texts
                 /\ \A v \in DOMAIN old \ {u} : new[v] = old[v]
        /\ books' # books
          => /\ Len(pending') < Len(pending)
             /\ handler' = "putReview" /\ res'.status = 200
      ]_vars

\* A PUT of alice's session was answered 200 and wrote her entry while the
\* PUT of her other session, with another text, still waits; bob's review
\* is there
C25_Witness ==
    /\ IsPut(req) /\ handler = "putReview" /\ res.status = 200
    /\ session[1].authorization # <<>> /\ SessionUser(1) = "alice"
    /\ session[2].authorization # <<>> /\ SessionUser(2) = "alice"
    /\ Len(pending) = 1
    /\ pending[1].sid # req.sid
    /\ pending[1].query.review # req.query.review
    /\ DOMAIN books["1"].reviews = {"alice", "bob"}
    /\ books["1"].reviews["alice"] = req.query.review

----------------------------------------------------------------------------
\* C26: the gate admits a request of a session exactly when the token
\* stored in that session is signed with the key and the clock is before
\* its expiry, and the token stored in a session changes only by a login
\* answered 200 in that same session: registrations and the requests of
\* other sessions leave the gate's decision for it as it was.
C26_CredentialSelfContained ==
    [][ /\ \A s \in DOMAIN session :
             session'[s] # session[s]
               => /\ IsLogin(req') /\ req'.sid = s
                  /\ handler' = "login" /\ res'.status = 200
        /\ (Len(pending') < Len(pending) /\ IsReview(req'))
             => LET stored == session[req'.sid].authorization
                IN  handler' \in ReviewHandlers
                      <=> /\ stored # <<>>
                          /\ stored[1].accessToken.sig = "access"
                          /\ now < stored[1].accessToken.exp
      ]_vars

\* A request of session 1 was admitted for alice after bob had registered
\* and logged in in session 2
C26_Witness ==
    /\ IsPut(req) /\ req.sid = 1 /\ handler = "putReview"
    /\ SessionUser(1) = "alice"
    /\ session[2].authorization # <<>> /\ SessionUser(2) = "bob"
    /\ Len(users) = 2

----------------------------------------------------------------------------
\* Vocabulary of the scenario of C27

Alice == [username |-> "alice", password |-> "pw1"]

LovedIt == [review |-> "Loved it"]

\* The stores as the scenario finds them: at the start, ...
ScenarioFresh ==
    /\ users = <<>> /\ books = SeedBooks
    /\ session[1].authorization = <<>>

\* ... after the registration, ...
ScenarioRegistered ==
    /\ users = <<Alice>> /\ books = SeedBooks
    /\ session[1].authorization = <<>>

\* ... with the session established, ...
ScenarioLoggedIn ==
    /\ users = <<Alice>> /\ books = SeedBooks
    /\ session[1].authorization # <<>>
    /\ SessionUser(1) = "alice"
    /\ now < session[1].authorization[1].accessToken.exp

\* ... and with the review written
ScenarioReviewed ==
    /\ users = <<Alice>>
    /\ books = [SeedBooks EXCEPT !["1"].reviews = [alice |-> "Loved it"]]
    /\ session[1].authorization # <<>>
    /\ SessionUser(1) = "alice"
    /\ now < session[1].authorization[1].accessToken.exp

----------------------------------------------------------------------------
----------------------------------------------------------------------------
\* C29: a session whose token has expired holds no stored credential.
C29_ExpiredCredentialDropped ==
    \A s \in DOMAIN session :
       session[s].authorization # <<>>
         => now < session[s].authorization[1].accessToken.exp

----------------------------------------------------------------------------
\* C30: while delayed reads wait, every other request can be handled to
\* completion at once: a register, a login, a getReviews, a putReview, a
\* deleteReview, and the arrival of another delayed read.
C30_DelaysDoNotBlock ==
    flight # <<>>
      => /\ ENABLED ReaderRegister
         /\ ENABLED ReaderLogin
         /\ ENABLED ReaderGetReviews
         /\ ENABLED ReaderPutReview
         /\ ENABLED ReaderDeleteReview
         /\ Len(flight) < MaxFlight
              => /\ ENABLED DelayListAll
                 /\ ENABLED DelayGetById
                 /\ ENABLED DelayAuthor
                 /\ ENABLED DelayTitle

\* A putReview was answered 200 while two delayed reads were waiting, a
\* title search in its second stage among them
C30_Witness ==
    /\ handler = "putReview" /\ res.status = 200
    /\ Len(flight) = 2
    /\ IsTitleSearch(flight[1].req) /\ flight[1].stage = "search"

----------------------------------------------------------------------------
----------------------------------------------------------------------------
----------------------------------------------------------------------------
\* C33: a login answered 400 or 404 leaves every session as it was: the
\* session of the request keeps the credential it held, with the same
\* username, token and expiry, or keeps none; the user directory and the
\* catalog are unchanged too.
C33_FailedLoginKeepsCredential ==
    [][ (IsLogin(req') /\ handler' = "login" /\ res'.status \in {400, 404})
        => /\ session' = session
           /\ session'[req'.sid].authorization = session[req'.sid].authorization
           /\ users' = users
           /\ books' = books
      ]_vars

\* A login as bob was answered 404 in a session that holds the unexpired
\* credential of alice
C33_Witness ==
    /\ IsLogin(req) /\ handler = "login" /\ res.status = 404
    /\ "username" \in DOMAIN req.body /\ req.body.username = "bob"
    /\ session[req.sid].authorization # <<>>
    /\ SessionUser(req.sid) = "alice"
    /\ now < session[req.sid].authorization[1].accessToken.exp

----------------------------------------------------------------------------
\* C34: in every reachable state a session that stores a credential stores
\* with the token the username the token carries, and the user directory
\* holds a record of that name; and a review handler that has run acted for
\* the user of the token the gate verified for that request.
C34_CredentialNamesItsUser ==
    /\ \A s \in DOMAIN session :
          session[s].authorization # <<>>
            => LET stored == session[s].authorization[1]
               IN  /\ stored.username = stored.accessToken.data
                   /\ \E i \in 1..Len(users) :
                         users[i].username = stored.username
    /\ (handler \in ReviewHandlers /\ IsReview(req))
          => /\ req.user # <<>>
             /\ req.user[1].data = session[req.sid].authorization[1].username
             /\ res.status = 200 => res.data.user = req.user[1].data

\* A PUT of bob was answered 200 in the session that alice had used before
C34_Witness ==
    /\ IsPut(req) /\ handler = "putReview" /\ res.status = 200
    /\ res.data.user = "bob"
    /\ Len(users) = 2
    /\ \E k \in DOMAIN books : "alice" \in DOMAIN books[k].reviews

----------------------------------------------------------------------------
\* C35: a PUT or DELETE of a review answered 200 for a catalog book changes
\* at most the acting user's entry in the review map of that book: the
\* entries of the other users on it, the review maps of the other books,
\* the author and title of every book, the user directory and the
\* credentials of the sessions are as before.
C35_WriteTouchesOneEntry ==
    [][ (/\ IsReview(req') /\ handler' \in ReviewHandlers
         /\ res'.status = 200
         /\ req'.path[4] \in DOMAIN books)
        => LET isbn == req'.path[4]
               u == session[req'.sid].authorization[1].username
               old == books[isbn].reviews
               new == books'[isbn].reviews
           IN  /\ users' = users
               /\ session' = session
               /\ DOMAIN books' = DOMAIN books
               /\ \A k \in DOMAIN books :
                     /\ books'[k].author = books[k].author
                     /\ books'[k].title = books[k].title
                     /\ k # isbn => books'[k].reviews = books[k].reviews
               /\ DOMAIN new \ {u} = DOMAIN old \ {u}
               /\ \A v \in DOMAIN old \ {u} : new[v] = old[v]
      ]_vars

\* bob's DELETE was answered 200 and took his entry from book 1, where the
\* entry of alice is still in place
C35_Witness ==
    /\ IsDelete(req) /\ handler = "deleteReview" /\ res.status = 200
    /\ res.data.user = "bob"
    /\ req.path[4] = "1"
    /\ DOMAIN books["1"].reviews = {"alice"}

----------------------------------------------------------------------------
ReadHandlers == {"getBooks", "getBookByIsbn", "author", "title", "getReviews"}

\* C36: a step of a read endpoint (the arrival of a delayed read, each of
\* its timers, and the answer of listAll, getById, searchByAuthor,
\* searchByTitle or getReviews with any status) leaves the catalog, the
\* user directory and the credentials of the sessions as they were.
C36_ReadsModifyNothing ==
    [][ (handler' \in ReadHandlers \/ flight' # flight)
        => /\ books' = books
           /\ objectCtor' = objectCtor
           /\ users' = users
           /\ session' = session
           /\ lastLogin' = lastLogin ]_vars

\* The search by author was answered 500 while the catalog holds a review
\* and a session holds a credential
C36_Witness ==
    /\ IsAuthorSearch(req) /\ handler = "author" /\ res.status = 500
    /\ books[ReaderIsbn].reviews # NoFields
    /\ \E s \in DOMAIN session : session[s].authorization # <<>>

----------------------------------------------------------------------------
\* C37: no review map ever holds an empty text; hence a DELETE that reaches
\* deleteReview for a catalog book is answered 404 exactly when the book has
\* no entry of the session's user, and when it has one the entry is removed
\* and the answer is 200.
C37_TruthinessIsPresence ==
    [][ /\ \A k \in DOMAIN books' :
              \A v \in DOMAIN books'[k].reviews : books'[k].reviews[v] # ""
        /\ (/\ RequestStep /\ IsDelete(req') /\ handler' = "deleteReview"
             /\ req'.path[4] \in DOMAIN SeedBooks)
            => LET isbn == req'.path[4]
                   u == SessionUser(req'.sid)
                   has == u \in DOMAIN books[isbn].reviews
               IN  /\ ~has <=> res'.status = 404
                   /\ has => /\ res'.status = 200
                              /\ u \notin DOMAIN books'[isbn].reviews
      ]_vars

====
